---- MODULE Spec2Model ----
(***************************************************************************)
(* State-machine model of src/main.py: the "Stock Trader" ledger.          *)
(*                                                                         *)
(*   - the SQLite file DB_FILE (tables portfolio / old_portfolio),         *)
(*   - init_db, run at import time (line 79), one step per statement,      *)
(*   - the async tools buy_stock and get_portfolio_status, one step per    *)
(*     slice between awaits that touches the store,                        *)
(*   - the process life cycle (start, serve, stop).                        *)
(*                                                                         *)
(* Reals (avg_price REAL, prices) are exact rationals [n, d]; the          *)
(* rounding of IEEE doubles is not modelled.  Transactions follow the      *)
(* sqlite3 module's default (legacy) transaction control, on which         *)
(* aiosqlite is built too: a DML statement opens a transaction, a DDL      *)
(* statement outside a transaction is committed on its own.                *)
(***************************************************************************)
EXTENDS Integers, Sequences, FiniteSets, TLC

\* ------------------------------------------------------------- bounds
\* request slots: tool calls that can be in flight at the same time
MaxCalls == 2
\* tool calls begun over a behaviour
MaxOps == 2

Calls == 1..MaxCalls

\* ------------------------------------------------------------- inputs
LocalUser == "local_user"
Users == {LocalUser, "alice"}
SymbolOrder == <<"AAA", "BBB">>
Symbols == {SymbolOrder[i] : i \in 1..Len(SymbolOrder)}
Quantities == {-1, 0, 2}
Prices == {100, 130}
\* What fast_info['last_price'] gives: a price, or the lookup raises.
Unavailable == [ok |-> FALSE, price |-> 0]
Quote(p) == [ok |-> TRUE, price |-> p]
Quotes == {Quote(p) : p \in Prices} \cup {Unavailable}

\* The request contexts a tool call can arrive with.
NoContext == [request_context |-> FALSE, lifecycle_context |-> <<>>]
EmptyLifecycle == [request_context |-> TRUE, lifecycle_context |-> <<>>]
UserContext(u) == [request_context |-> TRUE, lifecycle_context |-> <<u>>]
Contexts == {NoContext, EmptyLifecycle, UserContext("alice")}

\* ------------------------------------------------------------- reals
RECURSIVE GCD(_, _)
GCD(a, b) == IF b = 0 THEN a ELSE GCD(b, a % b)

Abs(x) == IF x < 0 THEN -x ELSE x

\* n/d in lowest terms with d > 0 (d # 0)
Rat(n, d) ==
    LET g == GCD(Abs(n), Abs(d))
        s == IF d < 0 THEN -1 ELSE 1
    IN  [n |-> s * (n \div g), d |-> s * (d \div g)]

Real(k) == [n |-> k, d |-> 1]
RatAdd(a, b) == Rat(a.n * b.d + b.n * a.d, a.d * b.d)
RatSub(a, b) == Rat(a.n * b.d - b.n * a.d, a.d * b.d)
RatMulInt(a, k) == Rat(a.n * k, a.d)
RatDivInt(a, k) == Rat(a.n, a.d * k)

\* ------------------------------------------------------------- store
NoTable == [cols |-> "none", rows |-> {}]
LegacyTable(rows) == [cols |-> "legacy", rows |-> rows]
CurrentTable(rows) == [cols |-> "current", rows |-> rows]

LegacyRow(s, q, a) == [symbol |-> s, quantity |-> q, avg_price |-> Real(a)]
Row(u, s, q, a) == [user_id |-> u, symbol |-> s, quantity |-> q, avg_price |-> a]

Store(p, o) == [portfolio |-> p, old_portfolio |-> o]

\* The files the process can find at DB_FILE when it starts the first time: none, or
\* the table of the single-user version.  (A table of the current shape is what a
\* restart finds.)
InitialStores ==
    { Store(NoTable, NoTable),
      Store(LegacyTable({LegacyRow("AAA", 3, 50), LegacyRow("BBB", 2, 100)}), NoTable) }

Keys == Users \X Symbols


\* ------------------------------------------------------------- state
VARIABLES
    phase,      \* "down" | "init" (inside init_db) | "loaded" (init_db returned) | "serving"
    db,         \* the committed content of DB_FILE
    conn,       \* init_db's connection: statement position, open transaction, its view
    calls,      \* the tool calls in flight or returned, per request slot
    found,      \* history: the store as the init_db of this process found it
    ledger,     \* history: per key, quantity and cost bought through the ledger
    overlap,    \* history: keys on which two buy_stock calls were in flight together
    nOps        \* tool calls begun

vars == <<phase, db, conn, calls, found, ledger, overlap, nOps>>

NoStore == Store(NoTable, NoTable)
ClosedConn == [pc |-> "closed", inTxn |-> FALSE, view |-> NoStore]

NoRow == [quantity |-> 0, avg_price |-> Real(0), present |-> FALSE]

IdleCall ==
    [op |-> "idle", pc |-> "idle", user_id |-> LocalUser, symbol |-> SymbolOrder[1],
     quantity |-> 0, price |-> 0, row |-> NoRow, txn |-> {}, rows |-> <<>>,
     report |-> <<>>, total_profit |-> Real(0), result |-> "none"]

\* ------------------------------------------------------------- get_user_id
\* Faulty variant: the fallback identity is not the one the migration writes.
get_user_id_other_default(ctx) ==
    IF ctx.request_context /\ ctx.lifecycle_context # <<>>
    THEN ctx.lifecycle_context[1]
    ELSE "alice"

\* line 18-22
get_user_id(ctx) ==
    IF ctx.request_context /\ ctx.lifecycle_context # <<>>
    THEN ctx.lifecycle_context[1]
    ELSE LocalUser

\* ------------------------------------------------------------- init_db
\* line 31-32: SELECT count(*) FROM sqlite_master WHERE type='table' AND name='portfolio'
TableExists(store) == store.portfolio.cols # "none"

\* line 48-49: PRAGMA table_info(portfolio), the column names
Columns(table) ==
    CASE table.cols = "legacy" -> {"symbol", "quantity", "avg_price"}
      [] table.cols = "current" -> {"user_id", "symbol", "quantity", "avg_price"}
      [] OTHER -> {}

\* Faulty variant: the column check is skipped.
NeedsMigrationAlways(columns) == TRUE

\* line 51: if "user_id" not in columns
NeedsMigration(columns) == "user_id" \notin columns

\* line 36-44 and 55-63: CREATE TABLE portfolio (... PRIMARY KEY (user_id, symbol))
CreatePortfolio(store) == [store EXCEPT !.portfolio = CurrentTable({})]

\* line 54: ALTER TABLE portfolio RENAME TO old_portfolio
RenameAside(store) == Store(NoTable, store.portfolio)

\* Faulty variant: the copied rows get no user.
CopyRowsUntagged(store) ==
    [store EXCEPT !.portfolio.rows =
        @ \cup {Row("", r.symbol, r.quantity, r.avg_price) : r \in store.old_portfolio.rows}]

\* line 65-68: INSERT INTO portfolio ... SELECT 'local_user', symbol, quantity, avg_price
\* FROM old_portfolio
CopyRows(store) ==
    [store EXCEPT !.portfolio.rows =
        @ \cup {Row(LocalUser, r.symbol, r.quantity, r.avg_price) : r \in store.old_portfolio.rows}]

\* line 69: DROP TABLE old_portfolio
DropOld(store) == [store EXCEPT !.old_portfolio = NoTable]

\* A statement run outside a transaction is committed on its own (DDL does not
\* open a transaction); inside one it changes the connection's view only.
InitExec(next, newView, opens) ==
    /\ conn' = [pc |-> next, inTxn |-> conn.inTxn \/ opens, view |-> newView]
    /\ db' = IF conn.inTxn \/ opens THEN db ELSE newView
    /\ UNCHANGED <<phase, calls, found, ledger, overlap, nOps>>

\* line 27-32
InitCheck ==
    /\ phase = "init" /\ conn.pc = "check"
    /\ InitExec(IF TableExists(conn.view) THEN "pragma" ELSE "create", conn.view, FALSE)

\* line 34-45
InitCreate ==
    /\ phase = "init" /\ conn.pc = "create"
    /\ InitExec("commit", CreatePortfolio(conn.view), FALSE)

\* line 48-51
InitPragma ==
    /\ phase = "init" /\ conn.pc = "pragma"
    /\ InitExec(IF NeedsMigration(Columns(conn.view.portfolio)) THEN "rename" ELSE "commit",
                conn.view, FALSE)

\* line 54 (fails when a table old_portfolio is already there: InitFail)
InitRename ==
    /\ phase = "init" /\ conn.pc = "rename"
    /\ conn.view.old_portfolio.cols = "none"
    /\ InitExec("createNew", RenameAside(conn.view), FALSE)

\* line 55-63
InitCreateNew ==
    /\ phase = "init" /\ conn.pc = "createNew"
    /\ InitExec("copy", CreatePortfolio(conn.view), FALSE)

\* line 65-68: the INSERT opens the transaction
InitCopy ==
    /\ phase = "init" /\ conn.pc = "copy"
    /\ InitExec("drop", CopyRows(conn.view), TRUE)

\* line 69-70: inside the transaction the INSERT opened
InitDrop ==
    /\ phase = "init" /\ conn.pc = "drop"
    /\ InitExec("commit", DropOld(conn.view), FALSE)

\* line 73: conn.commit(), then the with block ends and init_db returns
InitCommit ==
    /\ phase = "init" /\ conn.pc = "commit"
    /\ db' = conn.view
    /\ conn' = ClosedConn
    /\ phase' = "loaded"
    /\ UNCHANGED <<calls, found, ledger, overlap, nOps>>

\* line 74-76: a statement raises (storage error); the with block rolls the open
\* transaction back, the exception leaves init_db and the import: the process exits.
InitFail ==
    /\ phase = "init"
    /\ conn' = ClosedConn
    /\ phase' = "down"
    /\ found' = NoStore
    /\ UNCHANGED <<db, calls, ledger, overlap, nOps>>

\* ------------------------------------------------------------- SQL of the tools
Matching(rows, u, s) == {r \in rows : r.user_id = u /\ r.symbol = s}

\* line 112-116: SELECT quantity, avg_price ... WHERE user_id=? AND symbol=?; fetchone()
SelectRow(rows, u, s) ==
    IF Matching(rows, u, s) = {}
    THEN NoRow
    ELSE LET r == CHOOSE x \in Matching(rows, u, s) : TRUE
         IN  [quantity |-> r.quantity, avg_price |-> r.avg_price, present |-> TRUE]

\* line 125-128: UPDATE portfolio SET quantity=?, avg_price=? WHERE user_id=? AND symbol=?
UpdateRow(rows, u, s, q, a) ==
    (rows \ Matching(rows, u, s)) \cup {Row(u, s, q, a) : r \in Matching(rows, u, s)}

\* Faulty variant: the table has no primary key, no INSERT is refused.
KeyNeverTaken(rows, u, s) == FALSE

\* line 36-44: PRIMARY KEY (user_id, symbol), checked by the INSERT of line 131-134
KeyTaken(rows, u, s) == Matching(rows, u, s) # {}

\* line 131-134: INSERT INTO portfolio (user_id, symbol, quantity, avg_price) VALUES (?, ?, ?, ?)
InsertRow(rows, u, s, q, a) == rows \cup {Row(u, s, q, a)}

\* Faulty variant: the WHERE user_id=? is missing.
ListRowsAllUsers(rows, u) ==
    LET held == SelectSeq(SymbolOrder, LAMBDA s : \E r \in rows : r.symbol = s)
    IN  [i \in 1..Len(held) |-> CHOOSE r \in rows : r.symbol = held[i]]

\* line 149-153: SELECT symbol, quantity, avg_price FROM portfolio WHERE user_id=?;
\* fetchall(), in the order of the primary-key index
ListRows(rows, u) ==
    LET held == SelectSeq(SymbolOrder, LAMBDA s : Matching(rows, u, s) # {})
    IN  [i \in 1..Len(held) |-> CHOOSE r \in Matching(rows, u, held[i]) : TRUE]

\* ------------------------------------------------------------- weighted average
\* line 121
NewQty(row, quantity) == row.quantity + quantity

\* line 122
TotalCost(row, quantity, price) ==
    RatAdd(RatMulInt(row.avg_price, row.quantity), Real(quantity * price))

\* Faulty variant: the mean of the old average and the new price.
NewAvgUnweighted(row, quantity, price) ==
    RatDivInt(RatAdd(row.avg_price, Real(price)), 2)

\* line 123 (NewQty # 0)
NewAvg(row, quantity, price) ==
    RatDivInt(TotalCost(row, quantity, price), NewQty(row, quantity))

\* ------------------------------------------------------------- buy_stock
InFlight(c) == calls[c].pc \notin {"idle", "done"}

\* A handler's return and the hand-over of its response to the transport are one
\* slice of the event loop: while a response is being handed over (pc "done"),
\* nothing else runs.
HandedOver == \A c \in Calls : calls[c].pc # "done"

\* yf.Ticker(...).fast_info[...] is an ordinary (blocking) call made inside the
\* coroutine (line 103-104, 164): while it is outstanding (pc "oracle") the thread of
\* the event loop is inside it and no other handler slice runs.
Quiet == \A c \in Calls : calls[c].pc \notin {"done", "oracle"}
FreeSlot(c) == Quiet /\ ~InFlight(c) /\ \A d \in Calls : d < c => InFlight(d)
BuyOn(c, u, s) ==
    calls[c].op = "buy" /\ InFlight(c) /\ calls[c].user_id = u /\ calls[c].symbol = s

\* SQLite lets one connection write at a time: the connection whose UPDATE/INSERT ran
\* holds the write lock until its commit or rollback.
WriteLocked == \E d \in Calls : calls[d].pc = "commit"

\* The response of call c: the text of a confirmation names the quantity, the symbol,
\* the price and the user (line 137); an error text names none of the call's inputs
\* (line 140, 178), nor does "Your portfolio is empty." (line 156).
Return(c, result) ==
    IF result = "bought"
    THEN [calls[c] EXCEPT !.pc = "done", !.result = result, !.row = NoRow, !.txn = {}]
    ELSE [IdleCall EXCEPT !.op = calls[c].op, !.pc = "done", !.result = result]

\* line 97-104: buy_stock is called for symbol s and calls the oracle.  The user and
\* the quantity are the call's own and read by nothing before line 110: they are
\* drawn where they are first used.
BuyLookup(c, s) ==
    /\ phase = "serving" /\ nOps < MaxOps /\ FreeSlot(c)
    /\ calls' = [calls EXCEPT ![c] =
          [IdleCall EXCEPT !.op = "buy", !.pc = "oracle", !.symbol = s]]
    /\ nOps' = nOps + 1
    /\ UNCHANGED <<phase, db, conn, found, ledger, overlap>>

AtOracle(c, op, s) ==
    calls[c].op = op /\ calls[c].pc = "oracle" /\ calls[c].symbol = s

\* Faulty variant: the failed lookup still records a row.
BuyOracleFailWrites(c, ctx, s, q) ==
    /\ AtOracle(c, "buy", s)
    /\ calls' = [calls EXCEPT ![c] =
          [IdleCall EXCEPT !.op = "buy", !.pc = "done", !.symbol = s,
                           !.result = "notfound"]]
    /\ db' = [db EXCEPT !.portfolio.rows = InsertRow(@, get_user_id(ctx), s, q, Real(0))]
    /\ UNCHANGED <<phase, conn, found, ledger, overlap, nOps>>

\* line 99-106: the oracle lookup raises; "Could not find stock ..."
BuyOracleFail(c, ctx, s, q) ==
    /\ AtOracle(c, "buy", s)
    /\ calls' = [calls EXCEPT ![c] =
          [IdleCall EXCEPT !.op = "buy", !.pc = "done", !.symbol = s,
                           !.result = "notfound"]]
    /\ UNCHANGED <<phase, db, conn, found, ledger, overlap, nOps>>

\* line 99-116: the oracle returns price p; connect, SELECT the row of
\* (user_id, symbol), fetchone.  The slice before the connect touches nothing but
\* the call's own variables, so it is taken together with the read.
BuySelect(c, ctx, s, q, p) ==
    /\ AtOracle(c, "buy", s)
    /\ calls' = [calls EXCEPT ![c] =
          [IdleCall EXCEPT !.op = "buy", !.pc = "write", !.user_id = get_user_id(ctx),
                           !.symbol = s, !.quantity = q, !.price = p,
                           !.row = SelectRow(db.portfolio.rows, get_user_id(ctx), s)]]
    /\ overlap' = IF \E d \in Calls \ {c} : BuyOn(d, get_user_id(ctx), s)
                  THEN overlap \cup {<<get_user_id(ctx), s>>}
                  ELSE overlap
    /\ UNCHANGED <<phase, db, conn, found, ledger, nOps>>

\* line 99-116, 139-140: the oracle returns a price; the connect or the SELECT
\* raises (storage error); "Database error: ..."
BuyConnectError(c) ==
    /\ calls[c].op = "buy" /\ calls[c].pc = "oracle"
    /\ calls' = [calls EXCEPT ![c] =
          [IdleCall EXCEPT !.op = "buy", !.pc = "done", !.result = "dberror"]]
    /\ UNCHANGED <<phase, db, conn, found, ledger, overlap, nOps>>

\* line 118-123, 139-140: new_qty is 0, total_cost / new_qty raises ZeroDivisionError
BuyZeroDivision(c) ==
    /\ Quiet /\ calls[c].op = "buy" /\ calls[c].pc = "write"
    /\ calls[c].row.present /\ NewQty(calls[c].row, calls[c].quantity) = 0
    /\ calls' = [calls EXCEPT ![c] = Return(c, "dberror")]
    /\ UNCHANGED <<phase, db, conn, found, ledger, overlap, nOps>>

\* line 118-134: the UPDATE (a row was read) or the INSERT (none was), run in a
\* transaction the statement opens; waits while another connection holds the lock
BuyWrite(c) ==
    LET k == calls[c]
        rows == db.portfolio.rows
    IN  /\ Quiet /\ k.op = "buy" /\ k.pc = "write"
        /\ ~WriteLocked
        /\ IF k.row.present
           THEN /\ NewQty(k.row, k.quantity) # 0
                /\ calls' = [calls EXCEPT ![c].pc = "commit",
                       ![c].txn = UpdateRow(rows, k.user_id, k.symbol,
                                            NewQty(k.row, k.quantity),
                                            NewAvg(k.row, k.quantity, k.price))]
           ELSE /\ ~KeyTaken(rows, k.user_id, k.symbol)
                /\ calls' = [calls EXCEPT ![c].pc = "commit",
                       ![c].txn = InsertRow(rows, k.user_id, k.symbol, k.quantity,
                                            Real(k.price))]
        /\ UNCHANGED <<phase, db, conn, found, ledger, overlap, nOps>>

\* line 131-134, 139-140: the INSERT violates the primary key (IntegrityError)
BuyInsertConflict(c) ==
    /\ Quiet /\ calls[c].op = "buy" /\ calls[c].pc = "write"
    /\ ~WriteLocked
    /\ ~calls[c].row.present
    /\ KeyTaken(db.portfolio.rows, calls[c].user_id, calls[c].symbol)
    /\ calls' = [calls EXCEPT ![c] = Return(c, "dberror")]
    /\ UNCHANGED <<phase, db, conn, found, ledger, overlap, nOps>>

\* line 125-134, 139-140: the lock is not released within the busy timeout
\* (OperationalError: database is locked)
BuyBusy(c) ==
    /\ Quiet /\ calls[c].op = "buy" /\ calls[c].pc = "write"
    /\ WriteLocked
    /\ ~(calls[c].row.present /\ NewQty(calls[c].row, calls[c].quantity) = 0)
    /\ calls' = [calls EXCEPT ![c] = Return(c, "dberror")]
    /\ UNCHANGED <<phase, db, conn, found, ledger, overlap, nOps>>

Bought(l, q, p) == [quantity |-> l.quantity + q, cost |-> RatAdd(l.cost, Real(q * p))]

\* Faulty variant: the confirmation is returned without the commit; closing the
\* connection rolls the write back.
BuyCommitSkipped(c) ==
    LET k == calls[c]
    IN  /\ Quiet /\ k.op = "buy" /\ k.pc = "commit"
        /\ calls' = [calls EXCEPT ![c] = Return(c, "bought")]
        /\ ledger' = [ledger EXCEPT ![<<k.user_id, k.symbol>>] =
                         Bought(@, k.quantity, k.price)]
        /\ UNCHANGED <<phase, db, conn, found, overlap, nOps>>

\* line 136-137: commit, then the confirmation is returned
BuyCommit(c) ==
    LET k == calls[c]
    IN  /\ Quiet /\ k.op = "buy" /\ k.pc = "commit"
        /\ db' = [db EXCEPT !.portfolio.rows = k.txn]
        /\ calls' = [calls EXCEPT ![c] = Return(c, "bought")]
        /\ ledger' = [ledger EXCEPT ![<<k.user_id, k.symbol>>] =
                         Bought(@, k.quantity, k.price)]
        /\ UNCHANGED <<phase, conn, found, overlap, nOps>>

\* Faulty variant: a failure of the commit leaves the write in the store.
BuyDbErrorKeepsWrite(c) ==
    /\ Quiet /\ calls[c].op = "buy" /\ calls[c].pc \in {"write", "commit"}
    /\ ~(calls[c].pc = "write" /\ calls[c].row.present
         /\ NewQty(calls[c].row, calls[c].quantity) = 0)
    /\ calls' = [calls EXCEPT ![c] = Return(c, "dberror")]
    /\ db' = IF calls[c].pc = "commit" THEN [db EXCEPT !.portfolio.rows = calls[c].txn]
             ELSE db
    /\ UNCHANGED <<phase, conn, found, ledger, overlap, nOps>>

\* line 125-136, 139-140: the UPDATE/INSERT or the commit raises (storage error);
\* the connection closes, which rolls its transaction back; "Database error: ..."
BuyDbError(c) ==
    /\ Quiet /\ calls[c].op = "buy" /\ calls[c].pc \in {"write", "commit"}
    /\ ~(calls[c].pc = "write" /\ calls[c].row.present
         /\ NewQty(calls[c].row, calls[c].quantity) = 0)
    /\ calls' = [calls EXCEPT ![c] = Return(c, "dberror")]
    /\ UNCHANGED <<phase, db, conn, found, ledger, overlap, nOps>>

\* ------------------------------------------------------------- get_portfolio_status
\* line 165-167
Pnl(r, current_price) ==
    RatSub(Real(current_price * r.quantity), RatMulInt(r.avg_price, r.quantity))

OkLine(r, current_price) ==
    [symbol |-> r.symbol, quantity |-> r.quantity, avg_price |-> r.avg_price,
     current_price |-> Quote(current_price), pnl |-> Pnl(r, current_price)]

\* line 172: "(Could not fetch live price)"
FailedLine(r) ==
    [symbol |-> r.symbol, quantity |-> 0, avg_price |-> Real(0),
     current_price |-> Unavailable, pnl |-> Real(0)]

\* Faulty variant: a failed lookup counts as a price of 0.
LoopStepCountsFailure(acc, r, quote) ==
    IF ~quote.ok
    THEN [report |-> Append(acc.report, FailedLine(r)),
          total_profit |-> RatAdd(acc.total_profit, Pnl(r, 0))]
    ELSE [report |-> Append(acc.report, OkLine(r, quote.price)),
          total_profit |-> RatAdd(acc.total_profit, Pnl(r, quote.price))]

\* line 161-172: one iteration of the loop over the fetched rows
LoopStep(acc, r, quote) ==
    IF ~quote.ok
    THEN [report |-> Append(acc.report, FailedLine(r)),
          total_profit |-> acc.total_profit]
    ELSE [report |-> Append(acc.report, OkLine(r, quote.price)),
          total_profit |-> RatAdd(acc.total_profit, Pnl(r, quote.price))]

\* Faulty variant: the read also removes the user's rows of quantity 0.
StatusFetchPrunes(c, ctx) ==
    /\ phase = "serving" /\ nOps < MaxOps /\ FreeSlot(c)
    /\ calls' = [calls EXCEPT ![c] =
          [IdleCall EXCEPT !.op = "status", !.pc = "report",
                           !.user_id = get_user_id(ctx),
                           !.rows = ListRows(db.portfolio.rows, get_user_id(ctx))]]
    /\ db' = [db EXCEPT !.portfolio.rows =
                 {r \in @ : ~(r.user_id = get_user_id(ctx) /\ r.quantity = 0)}]
    /\ nOps' = nOps + 1
    /\ UNCHANGED <<phase, conn, found, ledger, overlap>>

\* line 143-153: connect, SELECT the user's rows, fetchall, close
StatusFetch(c, ctx) ==
    /\ phase = "serving" /\ nOps < MaxOps /\ FreeSlot(c)
    /\ calls' = [calls EXCEPT ![c] =
          [IdleCall EXCEPT !.op = "status", !.pc = "report",
                           !.user_id = get_user_id(ctx),
                           !.rows = ListRows(db.portfolio.rows, get_user_id(ctx))]]
    /\ nOps' = nOps + 1
    /\ UNCHANGED <<phase, db, conn, found, ledger, overlap>>

\* Faulty variant: no rows give a report without lines and a total of 0.
StatusEmptyReport(c) ==
    /\ Quiet /\ calls[c].op = "status" /\ calls[c].pc = "report"
    /\ calls[c].rows = <<>>
    /\ calls' = [calls EXCEPT ![c].pc = "done", ![c].result = "report"]
    /\ UNCHANGED <<phase, db, conn, found, ledger, overlap, nOps>>

\* line 155-156: "Your portfolio is empty."
StatusEmpty(c) ==
    /\ Quiet /\ calls[c].op = "status" /\ calls[c].pc = "report"
    /\ calls[c].rows = <<>>
    /\ calls' = [calls EXCEPT ![c] = Return(c, "empty")]
    /\ UNCHANGED <<phase, db, conn, found, ledger, overlap, nOps>>

\* line 158-164: the loop is entered and the oracle is called for the first row
StatusLoop(c) ==
    /\ Quiet /\ calls[c].op = "status" /\ calls[c].pc = "report"
    /\ calls[c].rows # <<>>
    /\ calls' = [calls EXCEPT ![c].pc = "oracle", ![c].symbol = calls[c].rows[1].symbol]
    /\ UNCHANGED <<phase, db, conn, found, ledger, overlap, nOps>>

\* line 161-175: the oracle answers for the row the loop is at; its line is added;
\* the loop calls the oracle for the next row or, after the last, the report is
\* returned.  The loop runs without suspending.
StatusQuote(c, quote) ==
    LET k == calls[c]
        i == Len(k.report) + 1
        out == LoopStep([report |-> k.report, total_profit |-> k.total_profit],
                        k.rows[i], quote)
    IN  /\ k.op = "status" /\ k.pc = "oracle"
        /\ calls' = [calls EXCEPT ![c] =
              [k EXCEPT !.pc = IF i = Len(k.rows) THEN "done" ELSE "oracle",
                        !.result = IF i = Len(k.rows) THEN "report" ELSE "none",
                        !.symbol = IF i = Len(k.rows) THEN IdleCall.symbol
                                   ELSE k.rows[i + 1].symbol,
                        !.report = out.report,
                        !.total_profit = out.total_profit]]
        /\ UNCHANGED <<phase, db, conn, found, ledger, overlap, nOps>>

\* line 147-153, 177-178: the connect or the SELECT raises; "Error retrieving portfolio: ..."
StatusDbError(c) ==
    /\ phase = "serving" /\ nOps < MaxOps /\ FreeSlot(c)
    /\ calls' = [calls EXCEPT ![c] =
          [IdleCall EXCEPT !.op = "status", !.pc = "done", !.result = "error"]]
    /\ nOps' = nOps + 1
    /\ UNCHANGED <<phase, db, conn, found, ledger, overlap>>

\* ------------------------------------------------------------- process
ZeroLedger == [k \in Keys |-> [quantity |-> 0, cost |-> Real(0)]]

\* What the ledger holds for key k when the service starts.
Baseline(rows, k) ==
    LET r == SelectRow(rows, k[1], k[2])
    IN  [quantity |-> r.quantity, cost |-> RatMulInt(r.avg_price, r.quantity)]

\* line 1-79: the process starts and the import reaches init_db()
Start ==
    /\ phase = "down"
    /\ phase' = "init"
    /\ conn' = [pc |-> "check", inTxn |-> FALSE, view |-> db]
    /\ found' = db
    /\ UNCHANGED <<db, calls, ledger, overlap, nOps>>

\* Faulty variant: the service starts although init_db has not returned.
ServeUnchecked ==
    /\ phase \in {"init", "loaded"}
    /\ phase' = "serving"
    /\ conn' = ClosedConn
    /\ found' = NoStore
    /\ ledger' = [k \in Keys |-> Baseline(db.portfolio.rows, k)]
    /\ overlap' = {}
    /\ UNCHANGED <<db, calls, nOps>>

\* line 180-182: init_db has returned; mcp.run starts serving tool calls
Serve ==
    /\ phase = "loaded"
    /\ phase' = "serving"
    /\ found' = NoStore
    /\ ledger' = [k \in Keys |-> Baseline(db.portfolio.rows, k)]
    /\ overlap' = {}
    /\ UNCHANGED <<db, conn, calls, nOps>>

\* line 182: the transport takes the response of call c; its slot is free again
Deliver(c) ==
    /\ calls[c].pc = "done"
    /\ calls' = [calls EXCEPT ![c] = IdleCall]
    /\ UNCHANGED <<phase, db, conn, found, ledger, overlap, nOps>>

\* The process stops (shutdown or kill): open transactions are rolled back, the
\* calls in flight are gone.
Stop ==
    /\ phase # "down" /\ HandedOver
    /\ phase' = "down"
    /\ conn' = ClosedConn
    /\ calls' = [c \in Calls |-> IdleCall]
    /\ found' = NoStore
    /\ ledger' = ZeroLedger
    /\ overlap' = {}
    /\ UNCHANGED <<db, nOps>>

\* ------------------------------------------------------------- specification
Init ==
    /\ phase = "down"
    /\ db \in InitialStores
    /\ conn = ClosedConn
    /\ calls = [c \in Calls |-> IdleCall]
    /\ found = NoStore
    /\ ledger = ZeroLedger
    /\ overlap = {}
    /\ nOps = 0

Next ==
    \/ Start
    \/ InitCheck
    \/ InitCreate
    \/ InitPragma
    \/ InitRename
    \/ InitCreateNew
    \/ InitCopy
    \/ InitDrop
    \/ InitCommit
    \/ InitFail
    \/ Serve
    \/ Stop
    \/ \E c \in Calls, s \in Symbols : BuyLookup(c, s)
    \/ \E c \in Calls, ctx \in Contexts, s \in Symbols, q \in Quantities :
          BuyOracleFail(c, ctx, s, q)
    \/ \E c \in Calls, ctx \in Contexts, s \in Symbols, q \in Quantities, p \in Prices :
          BuySelect(c, ctx, s, q, p)
    \/ \E c \in Calls : BuyConnectError(c)
    \/ \E c \in Calls : BuyZeroDivision(c)
    \/ \E c \in Calls : BuyWrite(c)
    \/ \E c \in Calls : BuyInsertConflict(c)
    \/ \E c \in Calls : BuyBusy(c)
    \/ \E c \in Calls : BuyCommit(c)
    \/ \E c \in Calls : BuyDbError(c)
    \/ \E c \in Calls, ctx \in Contexts : StatusFetch(c, ctx)
    \/ \E c \in Calls : StatusEmpty(c)
    \/ \E c \in Calls : StatusLoop(c)
    \/ \E c \in Calls, quote \in Quotes : StatusQuote(c, quote)
    \/ \E c \in Calls : StatusDbError(c)
    \/ \E c \in Calls : Deliver(c)

Spec == Init /\ [][Next]_vars

\* ------------------------------------------------------------- properties
StoredRow(k) == SelectRow(db.portfolio.rows, k[1], k[2])
StoredCost(k) == RatMulInt(StoredRow(k).avg_price, StoredRow(k).quantity)

\* C1, the sums: while the service runs, for every key whose purchases ran one after
\* another, the stored quantity is the quantity bought and avg_price * quantity is
\* the cost paid.
C1_Sums ==
    phase = "serving" =>
        \A k \in Keys \ overlap :
            /\ StoredRow(k).quantity = ledger[k].quantity
            /\ StoredCost(k) = ledger[k].cost

\* C1, the first purchase: a confirmed purchase of a key that has no row creates the
\* row with the quantity bought and the price paid.
C1_First ==
    \A c \in Calls :
        (/\ calls[c].pc = "commit" /\ calls'[c].result = "bought"
         /\ ~KeyTaken(db.portfolio.rows, calls[c].user_id, calls[c].symbol))
        => Matching(db'.portfolio.rows, calls[c].user_id, calls[c].symbol) =
              {Row(calls[c].user_id, calls[c].symbol, calls[c].quantity,
                   Real(calls[c].price))}

\* C1: purchases (q1,p1)...(qn,pn) of one key, run one after another and interleaved
\* with purchases of other keys, leave quantity = q1+...+qn and
\* avg_price * quantity = q1*p1+...+qn*pn; the first one creates the row (q1, p1).
C1_WeightedAverage == [] C1_Sums /\ [][C1_First]_vars

\* C1's case: two purchases of a fresh key at different prices, not overlapping
\* (2 at 100, then 2 at 130: 4 at 115).
C1_Witness ==
    /\ phase = "serving"
    /\ \E k \in Keys \ overlap :
          /\ StoredRow(k).present
          /\ StoredRow(k).quantity = 4 /\ ledger[k].quantity = 4
          /\ StoredRow(k).avg_price = Real(115)

\* C2: no update is lost, also when purchases of one key run concurrently: every
\* committed (confirmed) purchase is reflected in the stored quantity and cost.
C2_NoLostUpdate ==
    phase = "serving" =>
        \A k \in Keys :
            /\ StoredRow(k).quantity = ledger[k].quantity
            /\ StoredCost(k) = ledger[k].cost

\* C3: the schema upgrade is all-or-nothing: when init_db fails or the process stops
\* inside init_db on a legacy store, the store is exactly as it was found.
C3_AllOrNothing ==
    [][(phase = "init" /\ found.portfolio.cols = "legacy" /\ phase' = "down")
        => db' = found]_vars

\* C4: a buy_stock whose oracle lookup fails returns "could not find stock" and
\* leaves the store as it was: no row created, none altered, nothing pending.
C4_NoMutationOnOracleFailure ==
    [][\A c \in Calls :
          (calls[c].pc # "done" /\ calls'[c].pc = "done" /\ calls'[c].result = "notfound")
          => (db' = db /\ calls'[c].txn = {})]_vars

\* C4's case: the lookup failed for a call while the store holds rows.
C4_Witness ==
    /\ \E c \in Calls : calls[c].op = "buy" /\ calls[c].result = "notfound"
    /\ db.portfolio.rows # {}

\* C5, the frame: while the service runs, a step changes the row of (u, s) only if
\* it is the commit of a buy_stock call of user u for symbol s.
C5_Frame ==
    (phase = "serving" /\ phase' = "serving") =>
        \A k \in Keys :
            Matching(db'.portfolio.rows, k[1], k[2]) # Matching(db.portfolio.rows, k[1], k[2])
            => \E c \in Calls :
                  /\ calls[c].op = "buy" /\ calls[c].pc = "commit"
                  /\ calls[c].user_id = k[1] /\ calls[c].symbol = k[2]

\* C5, the report: the rows a get_portfolio_status call reads and reports are rows
\* of its own user.
C5_OwnRows ==
    \A c \in Calls :
        calls[c].op = "status" =>
            /\ \A i \in 1..Len(calls[c].rows) : calls[c].rows[i].user_id = calls[c].user_id
            /\ \A i \in 1..Len(calls[c].report) :
                  \E j \in 1..Len(calls[c].rows) :
                      calls[c].rows[j].symbol = calls[c].report[i].symbol

\* C5: a buy_stock call of user A changes only the row (A, symbol); the rows of every
\* other user are unchanged, and get_portfolio_status of B lists no position of A.
C5_Isolation == [] C5_OwnRows /\ [][C5_Frame]_vars

\* C5's case: local_user's report, of local_user's two rows, after alice has bought
\* one of the two symbols.
C5_Witness ==
    \E c \in Calls :
        /\ calls[c].op = "status" /\ calls[c].result = "report"
        /\ calls[c].user_id = LocalUser /\ Len(calls[c].report) = 2
        /\ ledger[<<"alice", calls[c].report[1].symbol>>].quantity = 2
        /\ \E r \in db.portfolio.rows :
              r.user_id = "alice" /\ r.symbol = calls[c].report[1].symbol

\* C6: a buy_stock call with a quantity <= 0 is rejected before any state is mutated:
\* it returns a failure, never the confirmation of a committed purchase.
C6_RejectsNonPositive ==
    \A c \in Calls :
        (calls[c].op = "buy" /\ calls[c].quantity <= 0) => calls[c].result # "bought"

\* C7: init_db is idempotent: a run that returns leaves the current schema, and a run
\* on the current schema changes nothing at any step.
C7_Idempotent ==
    /\ phase = "loaded" => db.portfolio.cols = "current"
    /\ (phase \in {"init", "loaded"} /\ found.portfolio.cols = "current") => db = found

\* C7's case: init_db has run on the store a migration produced, and returned.
C7_Witness ==
    /\ phase = "loaded" /\ db = found
    /\ Row(LocalUser, "AAA", 3, Real(50)) \in db.portfolio.rows

\* C8: after init_db has returned on a legacy store, portfolio holds exactly one row
\* ('local_user', symbol, quantity, avg_price) per legacy row and no other, and
\* old_portfolio is gone.
C8_Migrated ==
    (phase = "loaded" /\ found.portfolio.cols = "legacy") =>
        /\ db.portfolio.cols = "current"
        /\ db.portfolio.rows =
              {Row(LocalUser, r.symbol, r.quantity, r.avg_price) : r \in found.portfolio.rows}
        /\ Cardinality(db.portfolio.rows) = Cardinality(found.portfolio.rows)
        /\ db.old_portfolio = NoTable

\* C8's case: a legacy store of two rows has been migrated.
C8_Witness ==
    /\ phase = "loaded" /\ found.portfolio.cols = "legacy"
    /\ Cardinality(found.portfolio.rows) = 2

\* The profit/loss of the lines 1..i whose lookup succeeded.
RECURSIVE ResolvedPnl(_, _, _)
ResolvedPnl(rows, report, i) ==
    IF i = 0
    THEN Real(0)
    ELSE IF report[i].current_price.ok
         THEN RatAdd(ResolvedPnl(rows, report, i - 1),
                     RatSub(Real(report[i].current_price.price * rows[i].quantity),
                            RatMulInt(rows[i].avg_price, rows[i].quantity)))
         ELSE ResolvedPnl(rows, report, i - 1)

\* C9: a report has one line per held symbol; a symbol whose lookup fails is marked
\* unavailable, and the total is the sum of current_price*quantity -
\* avg_price*quantity over exactly the symbols whose lookup succeeded.
C9_PartialFailureReport ==
    \A c \in Calls :
        (calls[c].op = "status" /\ calls[c].result = "report") =>
            /\ Len(calls[c].report) = Len(calls[c].rows)
            /\ \A i \in 1..Len(calls[c].rows) :
                  /\ calls[c].report[i].symbol = calls[c].rows[i].symbol
                  /\ ~calls[c].report[i].current_price.ok
                        => calls[c].report[i] = FailedLine(calls[c].rows[i])
            /\ calls[c].total_profit =
                  ResolvedPnl(calls[c].rows, calls[c].report, Len(calls[c].rows))

\* C9's case: a report of two symbols, one resolved and one not.
C9_Witness ==
    \E c \in Calls :
        /\ calls[c].op = "status" /\ calls[c].result = "report"
        /\ Len(calls[c].report) = 2
        /\ ~calls[c].report[1].current_price.ok
        /\ calls[c].report[2].current_price.ok
        /\ calls[c].total_profit # Real(0)

\* C10: no tool call runs before init_db has returned: the service starts only from
\* the state init_db's commit leaves, and a failed init_db ends the process.
C10_Barrier ==
    /\ [] ((\E c \in Calls : calls[c].op # "idle") => phase = "serving")
    /\ [][phase' = "serving" => phase \in {"loaded", "serving"}]_vars
    /\ [][(phase' = "loaded" /\ phase # "loaded")
            => (phase = "init" /\ conn.pc = "commit" /\ db' = conn.view)]_vars
    /\ [][(phase = "init" /\ phase' \notin {"init", "loaded"}) => phase' = "down"]_vars

\* C10's case: a tool call is in flight in a process whose init_db migrated a store.
C10_Witness ==
    /\ phase = "serving"
    /\ \E c \in Calls : InFlight(c)
    /\ Row(LocalUser, "AAA", 3, Real(50)) \in db.portfolio.rows

\* ------------------------------------------------------------- C11
\* The views of the table: the committed one and the one each open transaction
\* would commit.
Views ==
    {db.portfolio.rows} \cup
    {calls[c].txn : c \in {d \in Calls : calls[d].op = "buy" /\ calls[d].pc = "commit"}}

\* C11: in every reachable state the portfolio table holds at most one row for
\* each (user_id, symbol), also while first-time purchases of the same symbol by
\* the same user run concurrently; the same holds of what a pending transaction
\* is about to commit.
C11_OneRowPerKey ==
    db.portfolio.cols = "current" =>
        \A rows \in Views : \A r1 \in rows, r2 \in rows :
            (r1.user_id = r2.user_id /\ r1.symbol = r2.symbol) => r1 = r2

\* Two first-time purchases of one key overlapped; one is committed and the other,
\* which read no row, is about to run its INSERT.
C11_Witness ==
    \E c \in Calls :
        /\ calls[c].op = "buy" /\ calls[c].pc = "write" /\ ~calls[c].row.present
        /\ <<calls[c].user_id, calls[c].symbol>> \in overlap
        /\ StoredRow(<<calls[c].user_id, calls[c].symbol>>).present

\* ------------------------------------------------------------- C12
\* C12: whatever integer quantities buy_stock is called with, every row stored in
\* the portfolio table has quantity >= 0.
C12_NonNegative == \A r \in db.portfolio.rows : r.quantity >= 0

\* ------------------------------------------------------------- C13
\* C13: a buy_stock call that ends in a database error, wherever the error arose
\* (connect or read, UPDATE/INSERT, commit), fails as a whole: the step that returns
\* the error leaves the store and the record of committed purchases as they were,
\* the call's transaction is discarded with its write lock, and the call is over
\* (it starts no further attempt).
C13_FailsAsAWhole ==
    [][\A c \in Calls :
          (calls[c].op = "buy" /\ calls[c].pc # "done" /\ calls'[c].result = "dberror")
          => /\ db' = db
             /\ ledger' = ledger
             /\ calls'[c].pc = "done" /\ calls'[c].txn = {}
             /\ (calls[c].pc = "commit" => ~WriteLocked')
             /\ nOps' = nOps]_vars

\* A buy_stock call returned a database error while the store holds rows.
C13_Witness ==
    \E c \in Calls :
        /\ calls[c].op = "buy" /\ calls[c].pc = "done" /\ calls[c].result = "dberror"
        /\ db.portfolio.rows # {}

\* ------------------------------------------------------------- C14
\* C14: get_portfolio_status of a user who holds no row, whatever rows other users
\* hold, reads no rows and returns "Your portfolio is empty.": not an error and not
\* a report without lines; and it returns that only for a user read without rows.
C14_EmptyPortfolio ==
    [][\A c \in Calls :
          /\ (calls[c].op = "idle" /\ calls'[c].op = "status" /\ calls'[c].pc = "report")
             => (calls'[c].rows = <<>>
                 <=> \A s \in Symbols :
                        Matching(db.portfolio.rows, calls'[c].user_id, s) = {})
          /\ (calls[c].op = "status" /\ calls[c].pc = "report" /\ calls'[c].pc = "done")
             => (calls[c].rows = <<>> <=> calls'[c].result = "empty")
          /\ (calls'[c].op = "status" /\ calls'[c].result = "report")
             => calls'[c].report # <<>>]_vars

\* The only call so far, a get_portfolio_status, answered "Your portfolio is empty."
\* while the table holds rows (of another user).
C14_Witness ==
    \E c \in Calls :
        /\ calls[c].op = "status" /\ calls[c].pc = "done" /\ calls[c].result = "empty"
        /\ db.portfolio.rows # {}
        /\ nOps = 1

\* ------------------------------------------------------------- C15
\* The next slice of a call that is suspended at an await.
Resume(d) ==
    \/ BuyZeroDivision(d) \/ BuyWrite(d) \/ BuyInsertConflict(d) \/ BuyBusy(d)
    \/ BuyCommit(d) \/ BuyDbError(d)
    \/ StatusEmpty(d) \/ StatusLoop(d)

\* C15: an oracle lookup that has not returned (and may never return) holds up
\* nothing but its own line: in get_portfolio_status no other row of the report is
\* waiting behind it, and every other request in flight can take its next step.
C15_NoStall ==
    \A c \in Calls :
        calls[c].pc = "oracle" =>
            /\ calls[c].op = "status" =>
                   Len(calls[c].rows) - Len(calls[c].report) <= 1
            /\ \A d \in Calls \ {c} : InFlight(d) => ENABLED Resume(d)

\* ------------------------------------------------------------- C16
\* C16: across every step of buy_stock and get_portfolio_status a row that exists
\* is not deleted and its quantity does not decrease.
C16_NeverDecreases ==
    [][(phase = "serving" /\ phase' = "serving")
       => \A k \in Keys :
             StoredRow(k).present
             => /\ StoredRow(k)'.present
                /\ StoredRow(k)'.quantity >= StoredRow(k).quantity]_vars

\* ------------------------------------------------------------- C17
\* What a get_portfolio_status of user u lists: symbol, quantity, avg_price per row.
Listed(u) ==
    {[symbol |-> r.symbol, quantity |-> r.quantity, avg_price |-> r.avg_price] :
        r \in {ListRows(db.portfolio.rows, u)[i] :
                  i \in 1..Len(ListRows(db.portfolio.rows, u))}}

\* C17, after the migration: the rows a caller without context is shown are exactly
\* the legacy positions.
C17_ListsLegacy ==
    (phase = "loaded" /\ found.portfolio.cols = "legacy") =>
        /\ Listed(get_user_id(NoContext)) = found.portfolio.rows
        /\ Len(ListRows(db.portfolio.rows, get_user_id(NoContext)))
              = Cardinality(found.portfolio.rows)

\* C17, one position: no symbol has a row of the context-less identity next to
\* a row of the identity the migration writes.
C17_OnePosition ==
    db.portfolio.cols = "current" =>
        \A r1 \in db.portfolio.rows, r2 \in db.portfolio.rows :
            (/\ r1.symbol = r2.symbol
             /\ r1.user_id = LocalUser
             /\ r2.user_id = get_user_id(NoContext)) => r1 = r2

\* C17, the purchase: a committed buy_stock of the context-less identity for a
\* symbol that has a row of the migration's identity changes that row and adds none.
C17_Merges ==
    \A c \in Calls :
        (/\ calls[c].op = "buy" /\ calls[c].pc = "commit" /\ calls'[c].result = "bought"
         /\ calls[c].user_id = get_user_id(NoContext)
         /\ Matching(db.portfolio.rows, LocalUser, calls[c].symbol) # {})
        => /\ Cardinality(db'.portfolio.rows) = Cardinality(db.portfolio.rows)
           /\ Matching(db'.portfolio.rows, LocalUser, calls[c].symbol) =
                 {Row(LocalUser, calls[c].symbol, NewQty(calls[c].row, calls[c].quantity),
                      NewAvg(calls[c].row, calls[c].quantity, calls[c].price))}

\* C17: the identity of a caller without context is the identity the migration tags
\* the legacy rows with: after the migration such a caller's get_portfolio_status
\* lists exactly the legacy positions, and its buy_stock of a legacy symbol merges
\* into the migrated row instead of opening a second position.
C17_SameIdentity ==
    /\ [](C17_ListsLegacy /\ C17_OnePosition)
    /\ [][C17_Merges]_vars

\* A caller without context bought 2 of the migrated AAA (3 held): one row of 5.
C17_Witness ==
    \E c \in Calls :
        /\ calls[c].op = "buy" /\ calls[c].result = "bought"
        /\ calls[c].user_id = get_user_id(NoContext) /\ calls[c].symbol = "AAA"
        /\ StoredRow(<<LocalUser, "AAA">>).quantity = 5
        /\ Cardinality(db.portfolio.rows) = 2

\* ------------------------------------------------------------- C18
\* The row call c writes: line 121-128 after a row was read, line 131-134 otherwise.
Written(k) ==
    IF k.row.present
    THEN Row(k.user_id, k.symbol, NewQty(k.row, k.quantity),
             NewAvg(k.row, k.quantity, k.price))
    ELSE Row(k.user_id, k.symbol, k.quantity, Real(k.price))

\* C18: the result of buy_stock agrees with its effect.  The step that returns a
\* confirmation is the step that commits the call's transaction: the store then
\* holds the row the call wrote.  A step that returns "Could not find stock" or
\* "Database error" leaves the store as it was, and buy_stock returns nothing else.
C18_ResultMatchesEffect ==
    [][\A c \in Calls :
          (calls[c].op = "buy" /\ calls[c].pc # "done" /\ calls'[c].pc = "done")
          => /\ calls'[c].result \in {"bought", "notfound", "dberror"}
             /\ calls'[c].result = "bought"
                => /\ calls[c].pc = "commit"
                   /\ db'.portfolio.rows = calls[c].txn
                   /\ Written(calls[c]) \in db'.portfolio.rows
             /\ calls'[c].result \in {"notfound", "dberror"} => db' = db]_vars

\* A confirmed first purchase of 2: the store holds the row of quantity 2.
C18_Witness ==
    \E c \in Calls :
        /\ calls[c].op = "buy" /\ calls[c].pc = "done" /\ calls[c].result = "bought"
        /\ calls[c].quantity = 2
        /\ StoredRow(<<calls[c].user_id, calls[c].symbol>>).present
        /\ StoredRow(<<calls[c].user_id, calls[c].symbol>>).quantity = 2

\* ------------------------------------------------------------- C19
Range(seq) == {seq[i] : i \in 1..Len(seq)}

\* C19, the frame: no step of a get_portfolio_status call, on any path (rows read,
\* empty portfolio, each lookup, database error), changes the store.
C19_Frame ==
    \A c \in Calls :
        (calls'[c] # calls[c] /\ "status" \in {calls[c].op, calls'[c].op}) => db' = db

\* C19, the snapshot: the rows of a call are read in one step, each of them a row
\* the store holds for the user at that moment and all of those; they are not read
\* again, whatever buy_stock commits meanwhile; the lines of the report are theirs,
\* with their quantity and avg_price where a price was found.
C19_Snapshot ==
    \A c \in Calls :
        /\ (calls[c].op = "idle" /\ calls'[c].op = "status" /\ calls'[c].pc = "report")
           => /\ Range(calls'[c].rows) =
                    {r \in db.portfolio.rows : r.user_id = calls'[c].user_id}
              /\ Len(calls'[c].rows) = Cardinality(Range(calls'[c].rows))
        /\ (calls[c].op = "status" /\ calls'[c].op = "status"
            /\ calls'[c].result \notin {"empty", "dberror"})
           => calls'[c].rows = calls[c].rows
        /\ (calls'[c].op = "status" /\ calls'[c].result = "report")
           => \A i \in 1..Len(calls'[c].report) :
                 /\ calls'[c].report[i].symbol = calls'[c].rows[i].symbol
                 /\ calls'[c].report[i].current_price.ok
                    => /\ calls'[c].report[i].quantity = calls'[c].rows[i].quantity
                       /\ calls'[c].report[i].avg_price = calls'[c].rows[i].avg_price

\* C19: get_portfolio_status never changes the store, and what it reports is one
\* snapshot taken by a single read, also when buy_stock calls run concurrently.
C19_ReadOnlySnapshot == [][C19_Frame /\ C19_Snapshot]_vars

\* A report was returned after a buy_stock committed between the report's read and
\* its return: a line shows the quantity read, the store holds another.
C19_Witness ==
    \E c \in Calls :
        /\ calls[c].op = "status" /\ calls[c].result = "report"
        /\ \E i \in 1..Len(calls[c].report) :
              /\ calls[c].report[i].current_price.ok
              /\ calls[c].report[i].quantity #
                    StoredRow(<<calls[c].user_id, calls[c].report[i].symbol>>).quantity

====
